---- MODULE Spec2Model ----
(***************************************************************************)
(* A model of the RPC bridge of src/rpc: the request router (rpc_handler   *)
(* and its three dispatch macros), the base64 file envelope (Base64File,   *)
(* open_file, write_file), the capture channel (start_capture,             *)
(* stop_capture) and the event bridge (event_handler).                     *)
(*                                                                         *)
(* Strings that the code takes apart (paths) are sequences of their        *)
(* dot-separated components: "a.ext" is <<"a", "ext">>.  Base64 text is a  *)
(* sequence of symbols: 0..63 is the value of an alphabet character, Pad   *)
(* is '=', and Junk is a byte outside the alphabet.                        *)
(***************************************************************************)
EXTENDS Integers, Sequences, FiniteSets, TLC

VARIABLES
    fs,           \* regular files: path -> [exists, bytes]
    queue,        \* capture channel (mpsc): messages sent and not yet received
    received,     \* the messages the capture worker has received, in order
    rxAlive,      \* the channel's receiver has not been dropped
    events,       \* event loop proxy: events sent and not yet handled
    controlFlow,  \* the event loop's ControlFlow
    scripts,      \* scripts evaluated in the webview, in order
    foreground,   \* the application util::current_app() reports
    running,      \* FALSE once a dispatch has panicked
    args,         \* the SAVE command-line argument: <<>> or <<path>>
    release,      \* the build has no debug assertions (cfg(not(debug_assertions)))
    last,         \* the last dispatch: its number, request, responses, handler
    lastEvent,    \* the last event event_handler handled, and the flow before it
    callers,      \* concurrent Router invocations: the calls in flight, and their history
    cBytes,       \* codec: the bytes to transport
    cFile,        \* codec: the Base64File in transit (or NoFile)
    cOut          \* codec: what Base64File::decode made of cFile (or NoOut)

vars == <<fs, queue, received, rxAlive, events, controlFlow, scripts, foreground,
          running, args, release, last, lastEvent, callers, cBytes, cFile, cOut>>

-----------------------------------------------------------------------------
(* Bounds *)

MaxBytes == 2

MaxRequests == 2

MaxQueue == 2

MaxEvents == 2

MaxScripts == 2

MaxSaves == 2

-----------------------------------------------------------------------------
(* base64: the STANDARD alphabet with padding, as base64::encode and       *)
(* base64::decode_config_slice(_, STANDARD, _) compute it.                 *)

Pad == 64

Junk == 65

ByteVals == {0, 77, 255}

RECURSIVE SeqsUpTo(_, _)
SeqsUpTo(S, n) ==
    IF n = 0 THEN {<<>>}
    ELSE LET shorter == SeqsUpTo(S, n - 1)
         IN  shorter \cup {Append(s, x) : s \in {t \in shorter : Len(t) = n - 1}, x \in S}

Zeros(n) == [i \in 1..n |-> 0]

RECURSIVE encode(_)
encode(bytes) ==
    LET n == Len(bytes)
    IN  IF n = 0 THEN <<>>
        ELSE IF n = 1 THEN
            << bytes[1] \div 4, (bytes[1] % 4) * 16, Pad, Pad >>
        ELSE IF n = 2 THEN
            << bytes[1] \div 4,
               (bytes[1] % 4) * 16 + bytes[2] \div 16,
               (bytes[2] % 16) * 4,
               Pad >>
        ELSE
            << bytes[1] \div 4,
               (bytes[1] % 4) * 16 + bytes[2] \div 16,
               (bytes[2] % 16) * 4 + bytes[3] \div 64,
               bytes[3] % 64 >> \o encode(SubSeq(bytes, 4, n))

(* The leftover loop of decode_helper: the symbols of the last (possibly   *)
(* partial) chunk of 8, position i (0-based) onwards.  Yields the morsels  *)
(* read, or the DecodeError the loop returns.                              *)
RECURSIVE ScanLeftover(_, _, _, _)
ScanLeftover(text, i, padding_bytes, morsels) ==
    IF i >= Len(text) THEN [err |-> "none", morsels |-> morsels]
    ELSE LET b == text[i + 1]
         IN  IF b = Pad THEN
                 IF i % 4 < 2 THEN [err |-> "InvalidByte", morsels |-> <<>>]
                 ELSE ScanLeftover(text, i + 1, padding_bytes + 1, morsels)
             ELSE IF padding_bytes > 0 THEN [err |-> "InvalidByte", morsels |-> <<>>]
             ELSE IF b = Junk THEN [err |-> "InvalidByte", morsels |-> <<>>]
             ELSE ScanLeftover(text, i + 1, padding_bytes, Append(morsels, b))

(* The number of whole bytes n morsels hold (leftover_bits_ready_to_append / 8). *)
ReadyBytes(n) == (n * 6) \div 8

(* The bits of the last morsel that belong to no whole byte. *)
TrailingBits(morsels) ==
    LET n == Len(morsels)
    IN  IF n = 0 THEN 0
        ELSE IF n % 4 = 2 THEN morsels[n] % 16
        ELSE IF n % 4 = 3 THEN morsels[n] % 4
        ELSE 0

RECURSIVE MorselBytes(_)
MorselBytes(m) ==
    LET n == Len(m)
    IN  IF n < 2 THEN <<>>
        ELSE IF n = 2 THEN << m[1] * 4 + m[2] \div 16 >>
        ELSE IF n = 3 THEN
            << m[1] * 4 + m[2] \div 16, (m[2] % 16) * 16 + m[3] \div 4 >>
        ELSE
            << m[1] * 4 + m[2] \div 16,
               (m[2] % 16) * 16 + m[3] \div 4,
               (m[3] % 4) * 64 + m[4] >> \o MorselBytes(SubSeq(m, 5, n))

(* decode_config_slice(text, STANDARD, output) for text of at most one     *)
(* chunk (8 symbols), where output is a slice of `size` zero bytes.        *)
(* kind "ok": the bytes written (the slice's prefix); "err": a             *)
(* DecodeError; "panic": a write past the end of the slice.                *)
decode_config_slice(text, size) ==
    IF Len(text) % 8 \in {1, 5} THEN
        [kind |-> "err",
         error |-> IF text[Len(text)] = Junk THEN "InvalidByte" ELSE "InvalidLength",
         bytes |-> <<>>]
    ELSE LET scan == ScanLeftover(text, 0, 0, <<>>)
         IN  IF scan.err # "none" THEN
                 [kind |-> "err", error |-> scan.err, bytes |-> <<>>]
             ELSE IF TrailingBits(scan.morsels) # 0 THEN
                 [kind |-> "err", error |-> "InvalidLastSymbol", bytes |-> <<>>]
             ELSE IF ReadyBytes(Len(scan.morsels)) > size THEN
                 [kind |-> "panic", error |-> "index out of bounds", bytes |-> <<>>]
             ELSE
                 [kind |-> "ok", error |-> "none", bytes |-> MorselBytes(scan.morsels)]

(* Base64File::decode: a vector of unencoded_size zeros, decoded into, and *)
(* returned whole whatever the number of bytes written was.                *)
decode(file) ==
    LET r == decode_config_slice(file.base64, file.unencoded_size)
    IN  IF r.kind = "ok" THEN
            [kind |-> "ok", error |-> "none",
             bytes |-> r.bytes \o Zeros(file.unencoded_size - Len(r.bytes))]
        ELSE r

Base64File(size, text) == [unencoded_size |-> size, base64 |-> text]

-----------------------------------------------------------------------------
(* Paths and the file system.  Regular files are the paths of Files;        *)
(* LinkExt is a symbolic link to AExt; RelExt is a relative path, which the *)
(* file system resolves in the working directory; every other path is       *)
(* absolute.                                                                *)

AExt == <<"a", "ext">>

AExtBak == <<"a", "ext", "bak">>

NoExt == <<"noext">>

LinkExt == <<"link", "ext">>

LinkExtBak == <<"link", "ext", "bak">>

RelExt == <<"rel", "ext">>

RelExtBak == <<"rel", "ext", "bak">>

CurrentDir == "/cwd/"

ExeDir == "/exe/"

CwdRelExt == <<"/cwd/rel", "ext">>

CwdRelExtBak == <<"/cwd/rel", "ext", "bak">>

ExeRelExt == <<"/exe/rel", "ext">>

ExeRelExtBak == <<"/exe/rel", "ext", "bak">>

Files == {AExt, AExtBak, NoExt, LinkExtBak,
          CwdRelExt, CwdRelExtBak, ExeRelExt, ExeRelExtBak}

(* Path::is_relative *)
is_relative(path) == path \in {RelExt, RelExtBak}

(* Path::join: dir/path, and path itself if it is absolute *)
join(dir, path) ==
    IF ~is_relative(path) THEN path
    ELSE IF dir = CurrentDir THEN <<"/cwd/rel">> \o Tail(path)
    ELSE <<"/exe/rel">> \o Tail(path)

(* The regular file a path leads to *)
Target(path) == IF path = LinkExt THEN AExt ELSE join(CurrentDir, path)

NoFile == [exists |-> FALSE, bytes |-> <<>>]

File(bytes) == [exists |-> TRUE, bytes |-> bytes]

(* Path::exists, following symbolic links *)
exists(fsys, path) == fsys[Target(path)].exists

(* Path::canonicalize: the resolved path of an existing file, else an error *)
canonicalize(fsys, path) ==
    IF exists(fsys, path) THEN [ok |-> TRUE, path |-> Target(path)]
    ELSE [ok |-> FALSE, path |-> path]

(* Path::extension: the part of the file name after its last dot, if any *)
has_extension(path) == Len(path) >= 2

extension(path) == << path[Len(path)] >>

(* Path::with_extension: the file name's extension replaced by ext *)
with_extension(path, ext) == SubSeq(path, 1, Len(path) - 1) \o ext

(* The backup sibling write_file copies to: ext.push(".bak") *)
backup_path(path) == with_extension(path, extension(path) \o <<"bak">>)

(* fs::write and the destination of fs::copy: through a symbolic link *)
fs_write(fsys, path, bytes) == [fsys EXCEPT ![Target(path)] = File(bytes)]

RpcFile(path, file) == [path |-> path, file |-> file]

(* A fs::write of bytes that fails after cut of them, and before the last: *)
(* write_all fails in a write, with bytes still to write                   *)
Partial(cut, bytes) == 0 <= cut /\ cut < Len(bytes)

(* A fs::copy of bytes that fails after it opened its destination and wrote *)
(* cut of them: none (the permissions it sets on the truncated file are     *)
(* refused), some, or all of them (the failure comes after the last byte)   *)
CopyCut(cut, bytes) == 0 <= cut /\ cut <= Len(bytes)

(* open_file declaring the length of the text instead of the bytes' *)
open_file_text_size(fsys, path, fault) ==
    LET canon == canonicalize(fsys, path)
    IN  IF ~canon.ok THEN [ok |-> FALSE, error |-> <<"No such file or directory">>,
                           file |-> RpcFile(path, Base64File(0, <<>>))]
        ELSE IF fault = "read" THEN [ok |-> FALSE, error |-> <<"I/O error">>,
                                     file |-> RpcFile(path, Base64File(0, <<>>))]
        ELSE LET bytes == fsys[canon.path].bytes
             IN  [ok |-> TRUE, error |-> <<>>,
                  file |-> RpcFile(path, Base64File(Len(encode(bytes)), encode(bytes)))]

(* open_file.  fault "read" is an I/O error of fs::read. *)
open_file(fsys, path, fault) ==
    LET canon == canonicalize(fsys, path)
    IN  IF ~canon.ok THEN [ok |-> FALSE, error |-> <<"No such file or directory">>,
                           file |-> RpcFile(path, Base64File(0, <<>>))]
        ELSE IF fault = "read" THEN [ok |-> FALSE, error |-> <<"I/O error">>,
                                     file |-> RpcFile(path, Base64File(0, <<>>))]
        ELSE LET bytes == fsys[canon.path].bytes
             IN  [ok |-> TRUE, error |-> <<>>,
                  file |-> RpcFile(path, Base64File(Len(bytes), encode(bytes)))]

(* write_file making its backup after the write instead of before *)
write_file_backup_after(fsys, rpc_file, fault, cut) ==
    LET path == rpc_file.path
        backup == exists(fsys, path) /\ has_extension(path)
        decoded == decode(rpc_file.file)
        written == fs_write(fsys, path, decoded.bytes)
    IN  IF decoded.kind = "panic" THEN
            [res |-> "panic", error |-> <<decoded.error>>, fs |-> fsys]
        ELSE IF decoded.kind = "err" THEN
            [res |-> "err", error |-> <<"DecodeError", decoded.error>>, fs |-> fsys]
        ELSE IF fault \in {"create", "write", "copy"} THEN
            [res |-> "err", error |-> <<"I/O error">>, fs |-> fsys]
        ELSE
            [res |-> "ok", error |-> <<>>,
             fs |-> IF backup
                    THEN fs_write(written, backup_path(path), written[Target(path)].bytes)
                    ELSE written]

(* write_file keeping the first backup: no copy once the sibling exists *)
write_file_keep_backup(fsys, rpc_file, fault, cut) ==
    LET path == rpc_file.path
        backup == exists(fsys, path) /\ has_extension(path)
                  /\ ~fsys[Target(backup_path(path))].exists
        source == fsys[Target(path)].bytes
        copied == IF backup THEN fs_write(fsys, backup_path(path), source) ELSE fsys
        decoded == decode(rpc_file.file)
    IN  IF backup /\ fault = "copy" THEN
            [res |-> "err", error |-> <<"I/O error">>,
             fs |-> IF CopyCut(cut, source)
                    THEN fs_write(fsys, backup_path(path), SubSeq(source, 1, cut))
                    ELSE fsys]
        ELSE IF decoded.kind = "panic" THEN
            [res |-> "panic", error |-> <<decoded.error>>, fs |-> copied]
        ELSE IF decoded.kind = "err" THEN
            [res |-> "err", error |-> <<"DecodeError", decoded.error>>, fs |-> copied]
        ELSE IF fault = "create" THEN
            [res |-> "err", error |-> <<"I/O error">>, fs |-> copied]
        ELSE IF fault = "write" THEN
            [res |-> "err", error |-> <<"I/O error">>,
             fs |-> IF Partial(cut, decoded.bytes)
                    THEN fs_write(copied, path, SubSeq(decoded.bytes, 1, cut))
                    ELSE copied]
        ELSE
            [res |-> "ok", error |-> <<>>, fs |-> fs_write(copied, path, decoded.bytes)]

(* write_file.  Faults: "copy" fails fs::copy, "create" fails fs::write     *)
(* before it opens the destination, "write" fails it after.  fs::copy and   *)
(* fs::write open their target truncating it and then write: a failure      *)
(* after the opening leaves in the target the cut bytes written until then. *)
(* fs::copy may fail with none, some or all of the source written; fs::write *)
(* fails with fewer bytes written than there were to write.  With any other *)
(* cut the failure is the one of the opening, which leaves the target alone. *)
(* res is "ok", "err" or "panic" (the decode wrote past its buffer).        *)
write_file(fsys, rpc_file, fault, cut) ==
    LET path == rpc_file.path
        backup == exists(fsys, path) /\ has_extension(path)
        source == fsys[Target(path)].bytes
        copied == IF backup THEN fs_write(fsys, backup_path(path), source) ELSE fsys
        decoded == decode(rpc_file.file)
    IN  IF backup /\ fault = "copy" THEN
            [res |-> "err", error |-> <<"I/O error">>,
             fs |-> IF CopyCut(cut, source)
                    THEN fs_write(fsys, backup_path(path), SubSeq(source, 1, cut))
                    ELSE fsys]
        ELSE IF decoded.kind = "panic" THEN
            [res |-> "panic", error |-> <<decoded.error>>, fs |-> copied]
        ELSE IF decoded.kind = "err" THEN
            [res |-> "err", error |-> <<"DecodeError", decoded.error>>, fs |-> copied]
        ELSE IF fault = "create" THEN
            [res |-> "err", error |-> <<"I/O error">>, fs |-> copied]
        ELSE IF fault = "write" THEN
            [res |-> "err", error |-> <<"I/O error">>,
             fs |-> IF Partial(cut, decoded.bytes)
                    THEN fs_write(copied, path, SubSeq(decoded.bytes, 1, cut))
                    ELSE copied]
        ELSE
            [res |-> "ok", error |-> <<>>, fs |-> fs_write(copied, path, decoded.bytes)]

-----------------------------------------------------------------------------
(* JSON values, as far as the handlers' parameter shapes tell them apart.   *)
(* t is the value's kind: "null", "bool", "str" (a string: a path, a name   *)
(* or a caption), "file" (an object of RpcFile's shape), "args" (an object  *)
(* of StartCaptureArgs' shape), "dialog" (an object of DialogParams').      *)

JNull == [t |-> "null", flag |-> FALSE, str |-> <<>>, size |-> 0, b64 |-> <<>>]

JBool(b) == [JNull EXCEPT !.t = "bool", !.flag = b]

JStr(s) == [JNull EXCEPT !.t = "str", !.str = s]

JFile(f) == [JNull EXCEPT !.t = "file", !.str = f.path,
                          !.size = f.file.unencoded_size, !.b64 = f.file.base64]

JArgs(name) == [JNull EXCEPT !.t = "args", !.str = name]

JDialog(path) == [JNull EXCEPT !.t = "dialog", !.str = path]

(* Option<T> serialized: the value, or null *)
JOption(opt) == IF opt = <<>> THEN JNull ELSE opt[1]

(* A request's params: absent, or a JSON array *)
NoParams == [present |-> FALSE, items |-> <<>>]

Params(items) == [present |-> TRUE, items |-> items]

Request(id, method, params) == [id |-> id, method |-> method, params |-> params]

(* RpcResponse::new_result and RpcResponse::new_error *)
new_result(id, value) == [kind |-> "result", id |-> id, result |-> value, error |-> <<>>]

new_error(id, message) == [kind |-> "error", id |-> id, result |-> JNull, error |-> message]

-----------------------------------------------------------------------------
(* The registration lists of rpc_handler, in the order the macros test them *)

SpecialCommand == "open_command_line_save"

(* The notify list naming a command of the call list as well *)
NotifyCommands_overlap ==
    {"init", "minimize", "toggle_maximize", "drag_window", "close", "stop_capture"}

NotifyCommands == {"init", "minimize", "toggle_maximize", "drag_window", "close"}

CallCommands == {"check_for_update", "download_and_install_update",
                 "import_head_morph", "export_head_morph_dialog", "stop_capture"}

CallCommandsWithParam == {"open_external_link", "open_save", "save_file",
                          "save_save_dialog", "reload_save", "load_database",
                          "start_capture"}

(* The JSON kind that deserializes into the parameter type of a command *)
ParamShape(method) ==
    CASE method = "open_external_link" -> "str"
      [] method = "open_save" -> "bool"
      [] method = "save_file" -> "file"
      [] method = "save_save_dialog" -> "dialog"
      [] method = "reload_save" -> "str"
      [] method = "load_database" -> "str"
      [] method = "start_capture" -> "args"

(* The captions of start_capture and stop_capture (in the source: the       *)
(* Chinese for "end capture", "end capture (please open the game)" and      *)
(* "start capture").                                                        *)
CaptionStop == <<"end capture">>

CaptionMismatch == <<"end capture (please open the game)">>

CaptionStart == <<"start capture">>

StartCapture(name) == <<"StartCapture", name>>

StopCapture == <<"StopCapture">>

CloseWindow == <<"CloseWindow">>

DispatchCustomEvent(event, detail) == <<"DispatchCustomEvent", event, detail>>

BoardCastToJs(detail) == <<"BoardCastToJs", detail>>

(* Sender::send: the message joins the queue unless the receiver is gone *)
tx_send(q, alive, msg) == IF alive THEN Append(q, msg) ELSE q

(* let _ = utils.tx.send(msg): the send, its result dropped *)
send(st, alive, msg) ==
    [st EXCEPT !.queue = tx_send(st.queue, alive, msg), !.sent = Append(st.sent, msg)]

(* EventLoopProxy::send_event *)
send_event(evs, event) == Append(evs, event)

-----------------------------------------------------------------------------
(* The commands.  st is the state a command may touch: [fs, queue, events], *)
(* with sent, the messages it has handed to the capture channel's sender;   *)
(* env is what its collaborators answer during the call:                    *)
(*   fault    the I/O step that fails ("none" if none does)                 *)
(*   pick     the path a file dialog returns: <<>> or <<path>>              *)
(*   inspect  "ok" or "fail": whether util::current_app() succeeds          *)
(*   topapp   the foreground application current_app() reports              *)
(*   atsend   the foreground application by the time of the send            *)
(*   cut      the bytes a failing fs::copy or fs::write wrote before failing *)
(*   release  the build has no debug assertions                             *)
(*   alive    whether the capture channel's receiver still exists           *)
(* A command yields res ("ok", "err", "panic"), its value or its error, and *)
(* the state it leaves.                                                     *)

Ok(value, st) == [res |-> "ok", value |-> value, error |-> <<>>, st |-> st]

Err(error, st) == [res |-> "err", value |-> JNull, error |-> error, st |-> st]

Panic(error, st) == [res |-> "panic", value |-> JNull, error |-> error, st |-> st]

(* close sending the event twice *)
close_twice(env, st) ==
    [st EXCEPT !.events = send_event(send_event(st.events, CloseWindow), CloseWindow)]

close(env, st) == [st EXCEPT !.events = send_event(st.events, CloseWindow)]

save_file(rpc_file, env, st) ==
    LET w == write_file(st.fs, rpc_file, env.fault, env.cut)
        after == [st EXCEPT !.fs = w.fs]
    IN  IF w.res = "ok" THEN Ok(JNull, after)
        ELSE IF w.res = "err" THEN Err(w.error, after)
        ELSE Panic(w.error, after)

reload_save(path, env, st) ==
    LET r == open_file(st.fs, path, env.fault)
    IN  IF r.ok THEN Ok(JFile(r.file), st) ELSE Err(r.error, st)

(* load_database: a build without debug assertions (env.release) joins the  *)
(* path to the directory of the executable; fault "exe" fails current_exe() *)
load_database(path, env, st) ==
    IF ~env.release THEN reload_save(path, env, st)
    ELSE IF env.fault = "exe" THEN Err(<<"current_exe failed">>, st)
    ELSE reload_save(join(ExeDir, path), env, st)

(* open_save and import_head_morph: the file the dialog picked, if any *)
open_picked(env, st) ==
    IF env.pick = <<>> THEN Ok(JNull, st)
    ELSE reload_save(env.pick[1], env, st)

(* save_save_dialog and export_head_morph_dialog: the path picked, if any *)
dialog_path(env, st) ==
    Ok(JOption(IF env.pick = <<>> THEN <<>> ELSE <<JStr(env.pick[1])>>), st)

open_external_link(link, env, st) ==
    IF env.fault = "open" THEN Err(<<"opener failed">>, st) ELSE Ok(JNull, st)

(* start_capture checking the foreground application again as it sends *)
start_capture_recheck(name, env, st) ==
    IF env.inspect = "fail" THEN Err(<<"current_app failed">>, st)
    ELSE IF env.topapp # name \/ env.atsend # name THEN Ok(JStr(CaptionMismatch), st)
    ELSE Ok(JStr(CaptionStop), send(st, env.alive, StartCapture(name)))

(* start_capture taking a failed inspection for no foreground application *)
start_capture_lenient(name, env, st) ==
    IF env.inspect = "fail" THEN Ok(JStr(CaptionMismatch), st)
    ELSE IF env.topapp # name THEN Ok(JStr(CaptionMismatch), st)
    ELSE Ok(JStr(CaptionStop), send(st, env.alive, StartCapture(name)))

(* start_capture without the foreground check *)
start_capture_ungated(name, env, st) ==
    IF env.inspect = "fail" THEN Err(<<"current_app failed">>, st)
    ELSE Ok(JStr(CaptionStop), send(st, env.alive, StartCapture(name)))

(* start_capture restarting the capture: a StopCapture sent ahead of the *)
(* StartCapture                                                          *)
start_capture_restart(name, env, st) ==
    IF env.inspect = "fail" THEN Err(<<"current_app failed">>, st)
    ELSE IF env.topapp # name THEN Ok(JStr(CaptionMismatch), st)
    ELSE Ok(JStr(CaptionStop),
            send(send(st, env.alive, StopCapture), env.alive, StartCapture(name)))

start_capture(name, env, st) ==
    IF env.inspect = "fail" THEN Err(<<"current_app failed">>, st)
    ELSE IF env.topapp # name THEN Ok(JStr(CaptionMismatch), st)
    ELSE Ok(JStr(CaptionStop), send(st, env.alive, StartCapture(name)))

(* stop_capture behind the foreground check of start_capture *)
stop_capture_checked(env, st) ==
    IF env.topapp # <<"Game", "exe">> THEN Ok(JStr(CaptionMismatch), st)
    ELSE Ok(JStr(CaptionStart), send(st, env.alive, StopCapture))

(* stop_capture with the send's result propagated by `?` *)
stop_capture_strict(env, st) ==
    IF env.alive THEN Ok(JStr(CaptionStart), send(st, env.alive, StopCapture))
    ELSE Err(<<"sending on a closed channel">>, send(st, env.alive, StopCapture))

stop_capture(env, st) ==
    Ok(JStr(CaptionStart), send(st, env.alive, StopCapture))

(* command::$command(&utils) for a command of the call list *)
Call0(method, env, st) ==
    CASE method = "check_for_update" -> Ok(JNull, st)
      [] method = "download_and_install_update" -> Ok(JNull, st)
      [] method = "import_head_morph" -> open_picked(env, st)
      [] method = "export_head_morph_dialog" -> dialog_path(env, st)
      [] method = "stop_capture" -> stop_capture(env, st)

(* command::$command(&utils, value) for a command of the call-with-param list *)
Call1(method, value, env, st) ==
    CASE method = "open_external_link" -> open_external_link(value.str, env, st)
      [] method = "open_save" -> open_picked(env, st)
      [] method = "save_file" ->
            save_file(RpcFile(value.str, Base64File(value.size, value.b64)), env, st)
      [] method = "save_save_dialog" -> dialog_path(env, st)
      [] method = "reload_save" -> reload_save(value.str, env, st)
      [] method = "load_database" -> load_database(value.str, env, st)
      [] method = "start_capture" -> start_capture(value.str, env, st)

-----------------------------------------------------------------------------
(* handle_request: the closure of rpc_handler.  out is "none" (Ok(None)),   *)
(* "value" (Ok(Some(v))), "error" (Err) or "panic"; invoked is the command  *)
(* that ran, "none" if none did.                                            *)

Handled(out, value, error, st, invoked) ==
    [out |-> out, value |-> value, error |-> error, st |-> st, invoked |-> invoked]

(* What the ? after a command and the return of its serialized value make   *)
(* of the command's result                                                  *)
Returned(r, invoked) ==
    Handled(IF r.res = "ok" THEN "value" ELSE IF r.res = "err" THEN "error" ELSE "panic",
            r.value, r.error, r.st, invoked)

(* open_command_line_save answering nothing when no SAVE was given *)
open_command_line_save_silent(save, env, st) ==
    IF save = <<>> THEN Handled("none", JNull, <<>>, st, "none")
    ELSE IF is_relative(save[1]) /\ env.fault = "cwd" THEN
        Handled("error", JNull, <<"current_dir failed">>, st, "none")
    ELSE Returned(reload_save(join(CurrentDir, save[1]), env, st), "reload_save")

(* The branch of handle_request for "open_command_line_save".  fault "cwd"  *)
(* fails env::current_dir(), which is asked only for a relative path.       *)
open_command_line_save(save, env, st) ==
    IF save = <<>> THEN Handled("value", JNull, <<>>, st, "none")
    ELSE IF is_relative(save[1]) /\ env.fault = "cwd" THEN
        Handled("error", JNull, <<"current_dir failed">>, st, "none")
    ELSE Returned(reload_save(join(CurrentDir, save[1]), env, st), "reload_save")

(* notify_commands returning Ok(Some(null)) as the call commands do *)
notify_commands_reply(req, env, st) ==
    Handled("value", JNull, <<>>,
            IF req.method = "close" THEN close(env, st) ELSE st,
            req.method)

notify_commands(req, env, st) ==
    Handled("none", JNull, <<>>,
            IF req.method = "close" THEN close(env, st) ELSE st,
            req.method)

call_commands(req, env, st) == Returned(Call0(req.method, env, st), req.method)

(* What serde names when a value is not of the type looked for *)
Unexpected(value) ==
    IF value.t = "null" THEN <<"null">>
    ELSE IF value.t = "bool" THEN <<"boolean", IF value.flag THEN "true" ELSE "false">>
    ELSE IF value.t = "str" THEN <<"string", value.str>>
    ELSE <<"map">>

Expecting(shape) ==
    CASE shape = "str" -> "path string"
      [] shape = "bool" -> "a boolean"
      [] shape = "file" -> "struct RpcFile"
      [] shape = "dialog" -> "struct DialogParams"
      [] shape = "args" -> "struct StartCaptureArgs"

(* The fields of the three parameter structs, in their order, and the keys  *)
(* of the three kinds of object                                             *)
Fields(shape) ==
    CASE shape = "file" -> <<"path", "file">>
      [] shape = "dialog" -> <<"path", "filters">>
      [] shape = "args" -> <<"name">>

(* The first field of the struct that the object does not have *)
MissingField(shape, t) ==
    LET fields == Fields(shape)
        keys == {Fields(t)[i] : i \in 1..Len(Fields(t))}
        i == CHOOSE k \in 1..Len(fields) :
                 /\ fields[k] \notin keys
                 /\ \A j \in 1..(k - 1) : fields[j] \in keys
    IN  fields[i]

(* serde_json::from_value::<[T; 1]>(params): <<>> if the array             *)
(* deserializes, else the error.  The visitor of [T; 1] takes the first     *)
(* element, deserializing it, before it asks for the end of the array.      *)
from_value(shape, items) ==
    IF items = <<>> THEN
        <<"invalid length ", "0", ", expected an array of length 1">>
    ELSE IF items[1].t = shape THEN
        IF Len(items) > 1
        THEN <<"invalid length ", ToString(Len(items)), ", expected fewer elements in array">>
        ELSE <<>>
    ELSE IF shape \in {"file", "dialog", "args"} /\ items[1].t \in {"file", "dialog", "args"} THEN
        <<"missing field ", MissingField(shape, items[1].t)>>
    ELSE
        <<"invalid type: ">> \o Unexpected(items[1]) \o <<", expected ", Expecting(shape)>>

(* The array deserializes into [T; 1] *)
Deserializes(shape, items) == Len(items) = 1 /\ items[1].t = shape

(* call_commands_with_param taking absent params for no value to return *)
call_commands_with_param_lenient(req, env, st) ==
    IF ~req.params.present THEN
        Handled("value", JNull, <<>>, st, "none")
    ELSE IF from_value(ParamShape(req.method), req.params.items) # <<>> THEN
        Handled("error", JNull, from_value(ParamShape(req.method), req.params.items),
                st, "none")
    ELSE
        Returned(Call1(req.method, req.params.items[1], env, st), req.method)

call_commands_with_param(req, env, st) ==
    IF ~req.params.present THEN
        Handled("error", JNull, <<"argument required">>, st, "none")
    ELSE IF Deserializes(ParamShape(req.method), req.params.items) THEN
        Returned(Call1(req.method, req.params.items[1], env, st), req.method)
    ELSE
        Handled("error", JNull, from_value(ParamShape(req.method), req.params.items),
                st, "none")

(* wrong_method with the method name left out of the message *)
wrong_method_nameless(req, st) ==
    Handled("error", JNull, <<"Wrong RPC method">>, st, "none")

(* bail!("Wrong RPC method, got: {}", req.method) *)
wrong_method(req, st) ==
    Handled("error", JNull, <<"Wrong RPC method, got: ", req.method>>, st, "none")

handle_request(req, save, env, st) ==
    IF req.method = SpecialCommand THEN open_command_line_save(save, env, st)
    ELSE IF req.method \in NotifyCommands THEN notify_commands(req, env, st)
    ELSE IF req.method \in CallCommands THEN call_commands(req, env, st)
    ELSE IF req.method \in CallCommandsWithParam THEN call_commands_with_param(req, env, st)
    ELSE wrong_method(req, st)

(* The match of rpc_handler on handle_request's result: the responses sent  *)
(* back (none or one).  A panic unwinds out of rpc_handler: no response.    *)
Responses(req, h) ==
    IF h.out = "value" THEN << new_result(req.id, h.value) >>
    ELSE IF h.out = "error" THEN << new_error(req.id, h.error) >>
    ELSE <<>>

-----------------------------------------------------------------------------
(* The event bridge *)

(* The script event_handler formats for an event that reaches the webview *)
Script(event) ==
    IF event[1] = "DispatchCustomEvent" THEN <<"CustomEvent", event[2], event[3]>>
    ELSE <<"message", event[2]>>

(* event_handler whose other arms put the loop back to waiting *)
event_handler_resume(event, flow, scr, evaluated) ==
    IF event = CloseWindow THEN [controlFlow |-> "Exit", scripts |-> scr]
    ELSE [controlFlow |-> "Wait",
          scripts |-> IF evaluated THEN Append(scr, Script(event)) ELSE scr]

(* event_handler.  evaluated: whether evaluate_script succeeded (its result *)
(* is discarded either way).                                                *)
event_handler(event, flow, scr, evaluated) ==
    IF event = CloseWindow THEN [controlFlow |-> "Exit", scripts |-> scr]
    ELSE [controlFlow |-> flow,
          scripts |-> IF evaluated THEN Append(scr, Script(event)) ELSE scr]

-----------------------------------------------------------------------------
(* The state machine *)

Apps == {<<"Game", "exe">>, <<"Other", "exe">>}

NoRequest == Request(0, "", NoParams)

NoEnvelope == Base64File(-1, <<>>)

NoOut == [kind |-> "none", error |-> "none", bytes |-> <<>>]

NoEvent == [event |-> <<>>, before |-> "Wait"]

NoDispatch ==
    [n |-> 0, req |-> NoRequest, resp |-> <<>>, invoked |-> "none", out |-> "none",
     sent |-> <<>>,
     env |-> [fault |-> "none", cut |-> -1, pick |-> <<>>, inspect |-> "ok",
              topapp |-> <<>>, atsend |-> <<>>, alive |-> TRUE, release |-> FALSE]]

(* The callers of the router that may run at the same time *)
Callers == {1, 2}

(* pending: the call each caller has in flight, <<>> if none; count: the    *)
(* calls it has issued; issued: the calls in the order they were issued;    *)
(* arrivals: the calls that reached a live channel, in the order of their   *)
(* sends                                                                    *)
NoCallers ==
    [pending |-> [c \in Callers |-> <<>>], count |-> [c \in Callers |-> 0],
     issued |-> <<>>, arrivals |-> <<>>]

InitFs ==
    [p \in Files |-> IF p \in {AExt, NoExt, CwdRelExt} THEN File(<<77>>)
                     ELSE IF p = ExeRelExt THEN File(<<255>>)
                     ELSE NoFile]

Init ==
    /\ fs = InitFs
    /\ queue = <<>>
    /\ received = <<>>
    /\ rxAlive = TRUE
    /\ events = <<>>
    /\ controlFlow = "Wait"
    /\ scripts = <<>>
    /\ foreground = <<"Game", "exe">>
    /\ running = TRUE
    /\ release = TRUE
    /\ args \in {<<>>, <<LinkExt>>}
    /\ last = NoDispatch
    /\ lastEvent = NoEvent
    /\ callers = NoCallers
    /\ cBytes = <<>>
    /\ cFile = NoEnvelope
    /\ cOut = NoOut

(* What the collaborators may answer during a call of the command `method`: *)
(* the step that fails, among those the build and the SAVE argument let the *)
(* command come to                                                          *)
Faults(method) ==
    IF method = "save_file" THEN {"none", "copy", "create", "write"}
    ELSE IF method = "load_database"
         THEN {"none", "read"} \cup (IF release THEN {"exe"} ELSE {})
    ELSE IF method = SpecialCommand
         THEN IF args = <<>> THEN {"none"}
              ELSE {"none", "read"} \cup (IF is_relative(args[1]) THEN {"cwd"} ELSE {})
    ELSE IF method \in {"reload_save", "open_save", "import_head_morph"}
         THEN {"none", "read"}
    ELSE IF method = "open_external_link" THEN {"none", "open"}
    ELSE {"none"}

(* How far a failing fs::copy or fs::write of the request may get: not to   *)
(* the opening of its target (-1; for fs::write that is the fault "create"), *)
(* or to any number of the bytes it has to write: for fs::copy up to all of *)
(* them, for fs::write short of the last.  A fs::write with nothing to      *)
(* write cannot fail once it has opened its target.                         *)
Cuts(req, fault) ==
    IF /\ req.method = "save_file"
       /\ req.params.present
       /\ Deserializes("file", req.params.items)
       /\ fault \in {"copy", "write"}
    THEN LET v == req.params.items[1]
         IN  IF fault = "write"
             THEN 0..(Len(decode(Base64File(v.size, v.b64)).bytes) - 1)
             ELSE IF exists(fs, v.str) /\ has_extension(v.str)
             THEN -1..Len(fs[Target(v.str)].bytes)
             ELSE {-1}
    ELSE {-1}

Picks(method) ==
    IF method \in {"open_save", "import_head_morph", "save_save_dialog",
                   "export_head_morph_dialog"}
    THEN {<<>>, <<AExt>>}
    ELSE {<<>>}

Inspections(method) == IF method = "start_capture" THEN {"ok", "fail"} ELSE {"ok"}

(* The foreground application by the time the dispatch ends: the user may   *)
(* switch applications while start_capture is between its call of           *)
(* current_app() and its send                                               *)
AtSend(method, app) == IF method = "start_capture" THEN Apps ELSE {app}

(* rpc_handler: one dispatch, from the request to the responses *)
rpc_handler(req, fault, cut, pick, inspect, atsend) ==
    /\ running
    /\ \E env \in {[fault |-> fault, cut |-> cut, pick |-> pick, inspect |-> inspect,
                    topapp |-> foreground, atsend |-> atsend, alive |-> rxAlive,
                    release |-> release]} :
       \E h \in {handle_request(req, args, env,
                                 [fs |-> fs, queue |-> queue, events |-> events,
                                  sent |-> <<>>])} :
           /\ Len(h.st.queue) <= MaxQueue
           /\ Len(h.st.events) <= MaxEvents
           /\ fs' = h.st.fs
           /\ queue' = h.st.queue
           /\ events' = h.st.events
           /\ running' = (h.out # "panic")
           /\ last' = [n |-> last.n + 1, req |-> req, resp |-> Responses(req, h),
                       invoked |-> h.invoked, out |-> h.out, sent |-> h.st.sent,
                       env |-> env]
    /\ foreground' = atsend
    /\ UNCHANGED <<received, rxAlive, controlFlow, scripts, args, release, lastEvent, callers,
                   cBytes, cFile, cOut>>

(* The command the request comes to call: none if its method is of the     *)
(* call-with-param list and its params do not deserialize                   *)
Called(req) ==
    IF /\ req.method \in CallCommandsWithParam
       /\ ~(/\ req.params.present
            /\ Deserializes(ParamShape(req.method), req.params.items))
    THEN "none"
    ELSE req.method

Dispatch(reqs) ==
    \E req \in reqs :
        \E fault \in Faults(Called(req)), pick \in Picks(Called(req)),
           inspect \in Inspections(Called(req)),
           atsend \in AtSend(Called(req), foreground) :
            \E cut \in Cuts(req, fault) :
                rpc_handler(req, fault, cut, pick, inspect, atsend)

(* The event loop hands the next user event to event_handler *)
EventLoop ==
    /\ running
    /\ events # <<>>
    /\ \E evaluated \in BOOLEAN :
           LET r == event_handler(Head(events), controlFlow, scripts, evaluated)
           IN  /\ controlFlow' = r.controlFlow
               /\ scripts' = r.scripts
    /\ lastEvent' = [event |-> Head(events), before |-> controlFlow]
    /\ events' = Tail(events)
    /\ UNCHANGED <<fs, queue, received, rxAlive, foreground, running, args, release, last,
                   callers, cBytes, cFile, cOut>>

(* A background task (the update checker, the capture worker) sends an event *)
EmitEvent ==
    /\ running
    /\ Len(events) < MaxEvents
    /\ Len(scripts) + Len(events) < MaxScripts
    /\ \E e \in {DispatchCustomEvent("update", "d"), BoardCastToJs("d")} :
           events' = send_event(events, e)
    /\ UNCHANGED <<fs, queue, received, rxAlive, controlFlow, scripts, foreground,
                   running, args, release, last, lastEvent, callers, cBytes, cFile, cOut>>

(* The user brings another application to the foreground *)
SwitchApp ==
    /\ running
    /\ \E app \in Apps \ {foreground} : foreground' = app
    /\ UNCHANGED <<fs, queue, received, rxAlive, events, controlFlow, scripts,
                   running, args, release, last, lastEvent, callers, cBytes, cFile, cOut>>

(* The capture worker receives the next message *)
WorkerRecv ==
    /\ running
    /\ rxAlive
    /\ queue # <<>>
    /\ received' = Append(received, Head(queue))
    /\ queue' = Tail(queue)
    /\ UNCHANGED <<fs, rxAlive, events, controlFlow, scripts, foreground, running,
                   args, release, last, lastEvent, callers, cBytes, cFile, cOut>>

(* The capture worker ends and drops the receiver, and the queue with it *)
WorkerExit ==
    /\ running
    /\ rxAlive
    /\ rxAlive' = FALSE
    /\ queue' = <<>>
    /\ UNCHANGED <<fs, received, events, controlFlow, scripts, foreground, running,
                   args, release, last, lastEvent, callers, cBytes, cFile, cOut>>

-----------------------------------------------------------------------------
(* The router under every method name: the requests the webview may send    *)

Ids == {1, 2}

Game == <<"Game", "exe">>

Other == <<"Other", "exe">>

Methods ==
    {SpecialCommand} \cup NotifyCommands \cup CallCommands \cup CallCommandsWithParam
    \cup {"not_a_real_method", "Close", ""}

GoodFile == JFile(RpcFile(AExt, Base64File(1, encode(<<255>>))))

ShortFile == JFile(RpcFile(AExt, Base64File(0, encode(<<255>>))))

ParamValues == {JNull, JBool(TRUE), JStr(AExt), GoodFile, ShortFile, JArgs(Game), JDialog(AExt)}

(* Every shape of params for the commands that read them; for the others,   *)
(* which never look, three shapes                                           *)
RouterParams(method) ==
    {NoParams, Params(<<>>), Params(<<JStr(AExt), JStr(AExt)>>)}
    \cup {Params(<<v>>) : v \in IF method \in CallCommandsWithParam THEN ParamValues
                                ELSE {JArgs(Game)}}

RouterRequests ==
    UNION {{Request(id, m, p) : id \in Ids, p \in RouterParams(m)} : m \in Methods}

RouterStep == last.n < MaxRequests /\ Dispatch(RouterRequests)

Next == RouterStep \/ EventLoop \/ WorkerRecv

Spec == Init /\ [][Next]_vars

-----------------------------------------------------------------------------
(* The file gateway: loads and saves of the paths AExt, LinkExt and NoExt   *)

FilePaths == {AExt, LinkExt, NoExt}

NewBytes == {<<>>, <<255>>, <<77, 0>>}

(* Envelopes of new content, with the size declared right, one short and    *)
(* one long, and one whose text is no base64                                *)
NewFiles ==
    UNION {{Base64File(n, encode(b)) : n \in (Len(b) - 1)..(Len(b) + 1) \cap Nat} :
           b \in NewBytes}
    \cup {Base64File(1, <<Junk, 0, 0, 0>>)}

(* The envelope the last dispatch returned, if it returned one *)
Returned_files ==
    IF last.resp # <<>> /\ last.resp[1].kind = "result" /\ last.resp[1].result.t = "file"
    THEN {last.resp[1].result}
    ELSE {}

LoadRequestsOf(paths) ==
    {Request(1, m, Params(<<JStr(path)>>)) :
        m \in {"reload_save", "load_database"}, path \in paths}
    \cup {Request(1, "open_save", Params(<<JBool(TRUE)>>)),
          Request(1, "import_head_morph", NoParams),
          Request(1, SpecialCommand, NoParams)}

LoadRequests == LoadRequestsOf(FilePaths)

SaveRequests ==
    {Request(1, "save_file", Params(<<JFile(RpcFile(path, f))>>)) :
        path \in FilePaths, f \in NewFiles}

ResendRequests == {Request(1, "save_file", Params(<<v>>)) : v \in Returned_files}

InitFile ==
    /\ fs \in {[InitFs EXCEPT ![AExt] = f] : f \in {NoFile, File(<<77>>)}}
    /\ release = TRUE
    /\ queue = <<>>
    /\ received = <<>>
    /\ rxAlive = TRUE
    /\ events = <<>>
    /\ controlFlow = "Wait"
    /\ scripts = <<>>
    /\ foreground = Game
    /\ running = TRUE
    /\ args = <<LinkExt>>
    /\ last = NoDispatch
    /\ lastEvent = NoEvent
    /\ callers = NoCallers
    /\ cBytes = <<>>
    /\ cFile = NoEnvelope
    /\ cOut = NoOut

FileStep ==
    /\ last.n < MaxSaves
    /\ Dispatch(LoadRequests \cup SaveRequests \cup ResendRequests)

NextFile == FileStep

SpecFile == InitFile /\ [][NextFile]_vars

(* A file of any content is loaded and the envelope returned is saved back  *)
(* as it is                                                                 *)
InitRoundTrip ==
    /\ fs \in {[InitFs EXCEPT ![AExt] = File(b)] : b \in SeqsUpTo(ByteVals, MaxBytes + 1)}
    /\ queue = <<>>
    /\ received = <<>>
    /\ rxAlive = TRUE
    /\ events = <<>>
    /\ controlFlow = "Wait"
    /\ scripts = <<>>
    /\ foreground = Game
    /\ running = TRUE
    /\ release = TRUE
    /\ args = <<AExt>>
    /\ last = NoDispatch
    /\ lastEvent = NoEvent
    /\ callers = NoCallers
    /\ cBytes = <<>>
    /\ cFile = NoEnvelope
    /\ cOut = NoOut

RoundTripStep ==
    /\ last.n <= MaxSaves
    /\ Dispatch(LoadRequestsOf(FilePaths \cup {RelExt}) \cup ResendRequests)

NextRoundTrip == RoundTripStep

SpecRoundTrip == InitRoundTrip /\ [][NextRoundTrip]_vars

-----------------------------------------------------------------------------
(* Loads under either build, with no SAVE argument, an absolute or a        *)
(* relative one, of absolute and relative paths                             *)

InitLoad ==
    /\ fs \in {[InitFs EXCEPT ![CwdRelExt] = f] : f \in {NoFile, File(<<77>>)}}
    /\ release \in BOOLEAN
    /\ queue = <<>>
    /\ received = <<>>
    /\ rxAlive = TRUE
    /\ events = <<>>
    /\ controlFlow = "Wait"
    /\ scripts = <<>>
    /\ foreground = Game
    /\ running = TRUE
    /\ args \in {<<>>, <<LinkExt>>, <<RelExt>>}
    /\ last = NoDispatch
    /\ lastEvent = NoEvent
    /\ callers = NoCallers
    /\ cBytes = <<>>
    /\ cFile = NoEnvelope
    /\ cOut = NoOut

LoadIds(reqs) == {[r EXCEPT !.id = id] : r \in reqs, id \in Ids}

LoadStep ==
    /\ last.n < MaxRequests
    /\ Dispatch(LoadIds(LoadRequestsOf(FilePaths \cup {RelExt})))

NextLoad == LoadStep

SpecLoad == InitLoad /\ [][NextLoad]_vars

-----------------------------------------------------------------------------
(* The capture channel: start and stop requests while the user switches     *)
(* applications and the worker receives, or ends                            *)

CaptureRequests ==
    {Request(id, "start_capture", Params(<<JArgs(name)>>)) : id \in Ids, name \in Apps}
    \cup {Request(id, "stop_capture", NoParams) : id \in Ids}

CaptureStep == last.n < MaxRequests /\ Dispatch(CaptureRequests)

NextCapture == CaptureStep \/ SwitchApp \/ WorkerRecv \/ WorkerExit

SpecCapture == Init /\ [][NextCapture]_vars

-----------------------------------------------------------------------------
(* Concurrent Router invocations on the capture channel.  The callers of    *)
(* rpc_handler are not part of src/rpc; by the specification the channel's  *)
(* sender is shared by concurrent Router invocations.  A call is issued:    *)
(* rpc_handler is entered and start_capture takes its snapshot of the       *)
(* foreground application (command.rs 172).  Later it reaches its send      *)
(* (command.rs 177, 183) and returns.  Other callers' calls, the user and   *)
(* the worker act in between.  A caller issues its next call only after its *)
(* last one has returned.                                                   *)

(* The requests a caller may issue; the webview numbers its requests *)
RaceRequests(id) ==
    {Request(id, "start_capture", Params(<<JArgs(name)>>)) : name \in Apps}
    \cup {Request(id, "stop_capture", NoParams)}

RaceIssue(c) ==
    /\ running
    /\ Len(callers.issued) < MaxRequests
    /\ callers.pending[c] = <<>>
    /\ \E req \in RaceRequests(Len(callers.issued) + 1) :
       \E inspect \in Inspections(req.method) :
           callers' = [callers EXCEPT
               !.pending[c] = << [req |-> req, k |-> callers.count[c] + 1,
                                  inspect |-> inspect, topapp |-> foreground] >>,
               !.count[c] = @ + 1,
               !.issued = Append(@, [caller |-> c, k |-> callers.count[c] + 1])]
    /\ UNCHANGED <<fs, queue, received, rxAlive, events, controlFlow, scripts,
                   foreground, running, args, release, last, lastEvent,
                   cBytes, cFile, cOut>>

RaceSend(c) ==
    /\ running
    /\ callers.pending[c] # <<>>
    /\ \E call \in {callers.pending[c][1]} :
       \E env \in {[fault |-> "none", cut |-> -1, pick |-> <<>>,
                    inspect |-> call.inspect, topapp |-> call.topapp,
                    atsend |-> foreground, alive |-> rxAlive,
                    release |-> release]} :
       \E h \in {handle_request(call.req, args, env,
                                 [fs |-> fs, queue |-> queue, events |-> events,
                                  sent |-> <<>>])} :
           /\ Len(h.st.queue) <= MaxQueue
           /\ queue' = h.st.queue
           /\ last' = [n |-> last.n + 1, req |-> call.req,
                       resp |-> Responses(call.req, h), invoked |-> h.invoked,
                       out |-> h.out, sent |-> h.st.sent, env |-> env]
           /\ callers' = [callers EXCEPT
                  !.pending[c] = <<>>,
                  !.arrivals = IF rxAlive /\ h.st.sent # <<>>
                               THEN Append(@, [caller |-> c, k |-> call.k,
                                               req |-> call.req])
                               ELSE @]
    /\ UNCHANGED <<fs, received, rxAlive, events, controlFlow, scripts, foreground,
                   running, args, release, lastEvent, cBytes, cFile, cOut>>

RaceIssueStep == \E c \in Callers : RaceIssue(c)

RaceSendStep == \E c \in Callers : RaceSend(c)

NextRace == RaceIssueStep \/ RaceSendStep \/ SwitchApp \/ WorkerRecv \/ WorkerExit

SpecRace == Init /\ [][NextRace]_vars

-----------------------------------------------------------------------------
(* The event bridge: close requests and background events, handled by the   *)
(* event loop                                                               *)

EventRequests ==
    {Request(id, m, NoParams) :
        id \in Ids, m \in {"close", "check_for_update", "download_and_install_update"}}

EventStep == last.n < MaxRequests /\ Dispatch(EventRequests)

NextEvents == EventStep \/ EmitEvent \/ EventLoop

SpecEvents == Init /\ [][NextEvents]_vars

-----------------------------------------------------------------------------
(* The transcoder alone: bytes are encoded as open_file encodes them, the   *)
(* envelope may be altered on its way through the webview, and is decoded   *)
(* as write_file decodes it.                                                *)

InitCodec ==
    /\ fs = InitFs
    /\ queue = <<>>
    /\ received = <<>>
    /\ rxAlive = TRUE
    /\ events = <<>>
    /\ controlFlow = "Wait"
    /\ scripts = <<>>
    /\ foreground = Game
    /\ running = TRUE
    /\ release = TRUE
    /\ args = <<>>
    /\ last = NoDispatch
    /\ lastEvent = NoEvent
    /\ callers = NoCallers
    /\ cBytes \in SeqsUpTo(ByteVals, MaxBytes + 1)
    /\ cFile = NoEnvelope
    /\ cOut = NoOut

NotCodec == <<fs, queue, received, rxAlive, events, controlFlow, scripts, foreground,
              running, args, release, last, lastEvent, callers>>

(* open_file's envelope of the bytes read *)
CodecEncode ==
    /\ cFile = NoEnvelope
    /\ cFile' = Base64File(Len(cBytes), encode(cBytes))
    /\ UNCHANGED <<cBytes, cOut, NotCodec>>

(* The envelopes a sender can make of one: another declared size, the text  *)
(* cut short by a symbol, a byte outside the alphabet at its start             *)
Altered(file) ==
    {Base64File(n, file.base64) : n \in 0..(MaxBytes + 2)}
    \cup {Base64File(file.unencoded_size, SubSeq(file.base64, 1, Len(file.base64) - 1))}
    \cup {Base64File(file.unencoded_size,
                      IF file.base64 = <<>> THEN <<Junk>>
                      ELSE [file.base64 EXCEPT ![1] = Junk])}

CodecAlter ==
    /\ cFile # NoEnvelope
    /\ cFile.base64 = encode(cBytes)
    /\ cFile.unencoded_size = Len(cBytes)
    /\ cOut = NoOut
    /\ cFile' \in Altered(cFile) \ {cFile}
    /\ UNCHANGED <<cBytes, cOut, NotCodec>>

(* Base64File::decode of the envelope received *)
CodecDecode ==
    /\ cFile # NoEnvelope
    /\ cOut = NoOut
    /\ cOut' = decode(cFile)
    /\ UNCHANGED <<cBytes, cFile, NotCodec>>

NextCodec == CodecEncode \/ CodecAlter \/ CodecDecode

SpecCodec == InitCodec /\ [][NextCodec]_vars

(* The number of bytes a base64 text decodes to, given room enough *)
DecodedLen(text) == Len(decode_config_slice(text, Len(text)).bytes)

ValidText(text) == decode_config_slice(text, Len(text)).kind = "ok"

(* C2: Base64File::decode fails with a decode error whenever the declared   *)
(* size differs from the length the text decodes to, and whenever the text  *)
(* is no base64; it never yields a buffer padded or cut to the declared     *)
(* size.                                                                    *)
C2_DecodeRejectsSizeMismatch ==
    (/\ cOut # NoOut
     /\ \/ ~ValidText(cFile.base64)
        \/ cFile.unencoded_size # DecodedLen(cFile.base64))
    => cOut.kind = "err"

-----------------------------------------------------------------------------
(* The claims *)

Registered ==
    {SpecialCommand} \cup NotifyCommands \cup CallCommands \cup CallCommandsWithParam

(* The step is a dispatch of rpc_handler *)
Dispatched == last'.n = last.n + 1

(* The params are not a one-element array whose element has the shape the   *)
(* command's parameter deserializes from                                    *)
BadParams(req) ==
    \/ ~req.params.present
    \/ Len(req.params.items) # 1
    \/ req.params.items[1].t # ParamShape(req.method)

(* C1: a request whose method is neither open_command_line_save nor in one  *)
(* of the three lists invokes no handler, changes nothing, and is answered  *)
(* by exactly one error response with the request's id and the message      *)
(* "Wrong RPC method, got: <method>", whatever its params.                  *)
C1_UnknownMethod ==
    [][(Dispatched /\ last'.req.method \notin Registered)
       => /\ last'.invoked = "none"
          /\ last'.sent = <<>>
          /\ last'.resp = << [kind |-> "error", id |-> last'.req.id, result |-> JNull,
                              error |-> <<"Wrong RPC method, got: ", last'.req.method>>] >>
          /\ UNCHANGED <<fs, queue, events>>]_vars

C1_Witness ==
    /\ last.req = Request(2, "not_a_real_method", Params(<<JArgs(Game)>>))
    /\ last.resp = << new_error(2, <<"Wrong RPC method, got: ", "not_a_real_method">>) >>

(* C3: a successful save_file to a path that exists and has an extension    *)
(* leaves the bytes the destination held in the sibling named by appending  *)
(* ".bak", and the decoded new bytes in the destination; a save_file to a   *)
(* path that does not exist creates no backup file.                         *)
C3_BackupOnSave ==
    [][(Dispatched /\ last'.req.method = "save_file" /\ ~BadParams(last'.req))
       => LET v == last'.req.params.items[1]
              path == v.str
          IN  /\ (last'.out = "value" /\ exists(fs, path) /\ Len(path) >= 2)
                    => fs'[Target(backup_path(path))] = File(fs[Target(path)].bytes)
              /\ last'.out = "value"
                    => fs'[Target(path)] = File(decode(Base64File(v.size, v.b64)).bytes)
              /\ ~exists(fs, path)
                    => /\ fs'[AExtBak] = fs[AExtBak]
                       /\ fs'[LinkExtBak] = fs[LinkExtBak]]_vars

C3_Witness ==
    /\ last.req.method = "save_file"
    /\ last.out = "value"
    /\ last.req.params.items[1].str = LinkExt
    /\ fs[LinkExtBak] = File(<<77>>)
    /\ fs[AExt] = File(<<255>>)

(* C4: start_capture(name), once it has its snapshot of the foreground      *)
(* process, hands StartCapture(name) to the capture channel if and only if  *)
(* the snapshot equals name, and answers with the "stop" caption on a match *)
(* and the distinct "mismatch" caption otherwise, never with an error.      *)
C4_CaptureGating ==
    [][(/\ Dispatched
        /\ last'.req.method = "start_capture"
        /\ ~BadParams(last'.req)
        /\ last'.env.inspect = "ok")
       => LET name == last'.req.params.items[1].str
          IN  /\ CaptionStop # CaptionMismatch
              /\ foreground = name
                    => /\ last'.sent = << <<"StartCapture", name>> >>
                       /\ rxAlive => queue' = Append(queue, <<"StartCapture", name>>)
                       /\ last'.resp = << new_result(last'.req.id, JStr(CaptionStop)) >>
              /\ foreground # name
                    => /\ last'.sent = <<>>
                       /\ queue' = queue
                       /\ last'.resp = << new_result(last'.req.id, JStr(CaptionMismatch)) >>]_vars

C4_Witness ==
    /\ last.req.method = "start_capture"
    /\ last.req.params.items[1].str = Other
    /\ last.sent = << StartCapture(Other) >>
    /\ queue = << StopCapture, StartCapture(Other) >>

(* C5: a call-with-param request whose params are absent, or are not a      *)
(* one-element array of the expected shape, is answered by one error        *)
(* response with the request's id; no handler runs, no file is written and  *)
(* nothing is sent on the capture channel.                                  *)
C5_ArgumentGuard ==
    [][(/\ Dispatched
        /\ last'.req.method \in CallCommandsWithParam
        /\ BadParams(last'.req))
       => /\ Len(last'.resp) = 1
          /\ last'.resp[1].kind = "error"
          /\ last'.resp[1].id = last'.req.id
          /\ last'.invoked = "none"
          /\ last'.sent = <<>>
          /\ UNCHANGED <<fs, queue>>]_vars

C5_Witness ==
    /\ last.req.method = "start_capture"
    /\ ~last.req.params.present
    /\ last.resp = << new_error(last.req.id, <<"argument required">>) >>
    /\ last.invoked = "none"

(* C6: a successful load returns an envelope whose path is the canonical    *)
(* form of the path requested.                                              *)
C6_LoadReturnsCanonicalPath ==
    (/\ last.n > 0
     /\ last.req.method \in {"reload_save", "load_database"}
     /\ last.out = "value")
    => last.resp[1].result.str = canonicalize(fs, last.req.params.items[1].str).path

(* C7: the envelope a load builds of a file holding bytes B declares the    *)
(* length of B and decodes back to B, and a save_file of that envelope      *)
(* unchanged succeeds and leaves B in the file.                             *)
C7_RoundTrip ==
    [][/\ (Dispatched /\ last'.out = "value" /\ last'.resp[1].result.t = "file")
          => LET r == last'.resp[1].result
                 B == fs[Target(r.str)].bytes
             IN  /\ r.size = Len(B)
                 /\ decode(Base64File(r.size, r.b64)) =
                        [kind |-> "ok", error |-> "none", bytes |-> B]
       /\ (/\ Dispatched
           /\ last'.req.method = "save_file"
           /\ last'.req.params.items[1] \in Returned_files
           /\ last'.env.fault = "none")
          => LET path == last'.req.params.items[1].str
             IN  /\ last'.out = "value"
                 /\ fs'[Target(path)] = fs[Target(path)]]_vars

C7_Witness ==
    /\ last.req.method = "save_file"
    /\ last.out = "value"
    /\ last.req.params.items[1].str = LinkExt
    /\ last.req.params.items[1].size = 3
    /\ fs[AExt] = File(<<255, 77, 0>>)

(* C8: a request to init, minimize, toggle_maximize, drag_window or close   *)
(* is answered by no response, whatever its params.                         *)
C8_NotifySilent ==
    (/\ last.n > 0
     /\ last.req.method \in {"init", "minimize", "toggle_maximize", "drag_window", "close"})
    => last.resp = <<>>

C8_Witness ==
    /\ last.req.method = "close"
    /\ last.req.params = Params(<<JArgs(Game)>>)
    /\ last.resp = <<>>
    /\ events = << CloseWindow >>

(* C9: a request to a call or call-with-param method, or to                 *)
(* open_command_line_save, is answered by exactly one response with the     *)
(* request's id, a result or an error; never by none.                       *)
C9_ExactlyOneResponse ==
    (/\ last.n > 0
     /\ last.req.method \in
            CallCommands \cup CallCommandsWithParam \cup {SpecialCommand})
    => /\ Len(last.resp) = 1
       /\ last.resp[1].id = last.req.id
       /\ last.resp[1].kind = IF last.out = "value" THEN "result" ELSE "error"

(* event_handler has just handled event e *)
Delivered(e) == events # <<>> /\ Head(events) = e /\ events' = Tail(events)

(* C10: once CloseWindow has been handled the control flow is Exit and      *)
(* stays Exit whatever is handled next; CloseWindow evaluates no script,    *)
(* and handled again it changes nothing.                                    *)
C10_CloseIdempotent ==
    [][/\ controlFlow = "Exit" => controlFlow' = "Exit"
       /\ Delivered(CloseWindow) => (controlFlow' = "Exit" /\ scripts' = scripts)]_vars

C10_Witness ==
    /\ lastEvent = [event |-> CloseWindow, before |-> "Exit"]
    /\ controlFlow = "Exit"
    /\ events # <<>>

(* C11: a dispatch of "close" yields no response and sends exactly one      *)
(* CloseWindow event; it leaves the control flow as it was and runs to its  *)
(* end.  The control flow changes only in a step where event_handler        *)
(* handles CloseWindow, and that step makes it Exit.                        *)
C11_CloseDeferred ==
    [][/\ (Dispatched /\ last'.req.method = "close")
            => /\ last'.resp = <<>>
               /\ last'.out = "none"
               /\ events' = Append(events, CloseWindow)
               /\ controlFlow' = controlFlow
               /\ running'
       /\ controlFlow' # controlFlow => Delivered(CloseWindow)
       /\ Delivered(CloseWindow) => controlFlow' = "Exit"]_vars

C11_Witness ==
    /\ last.req.method = "close"
    /\ last.resp = <<>>
    /\ lastEvent = [event |-> CloseWindow, before |-> "Wait"]
    /\ controlFlow = "Exit"
    /\ events = <<>>

(* C12: stop_capture checks nothing: whatever the foreground application    *)
(* is, and whether or not a capture was started, a dispatch of it hands     *)
(* exactly one StopCapture to the channel's sender, which a live receiver's *)
(* queue takes at its end, and answers the one fixed caption.               *)
C12_StopUnconditional ==
    [][(Dispatched /\ last'.req.method = "stop_capture")
       => /\ last'.sent = <<StopCapture>>
          /\ rxAlive => queue' = Append(queue, StopCapture)
          /\ last'.resp = << new_result(last'.req.id, JStr(CaptionStart)) >>]_vars

C12_Witness ==
    /\ last.n = 1
    /\ last.req.method = "stop_capture"
    /\ last.env.topapp = Other
    /\ queue = <<StopCapture>>
    /\ received = <<>>
    /\ last.resp = << new_result(1, JStr(CaptionStart)) >>

(* C13: with the channel's receiver dropped, stop_capture, and              *)
(* start_capture(name) while name is the foreground application, still hand *)
(* their message to the sender, finish, and answer their usual caption as a *)
(* result response; the lost message leaves the queue as it was.            *)
C13_SendFailureSilent ==
    [][(/\ Dispatched
        /\ ~rxAlive
        /\ \/ last'.req.method = "stop_capture"
           \/ /\ last'.req.method = "start_capture"
              /\ last'.env.inspect = "ok"
              /\ foreground = last'.req.params.items[1].str)
       => /\ last'.resp =
                << new_result(last'.req.id,
                              JStr(IF last'.req.method = "stop_capture"
                                   THEN CaptionStart ELSE CaptionStop)) >>
          /\ Len(last'.sent) = 1
          /\ queue' = queue
          /\ running']_vars

C13_Witness ==
    /\ ~rxAlive
    /\ ~last.env.alive
    /\ last.req.method = "start_capture"
    /\ last.sent = <<StartCapture(Game)>>
    /\ last.resp = << new_result(2, JStr(CaptionStop)) >>
    /\ queue = <<>>

(* C14: a dispatch of "open_command_line_save" with no SAVE argument        *)
(* answers one result response whose value is null; with a SAVE argument it *)
(* answers, and leaves the state, as a "reload_save" request does for that  *)
(* path, joined to the working directory if it is relative, under the same  *)
(* answers of its collaborators (if the working directory cannot be told,   *)
(* there is no path to join to, and the answer is an error).                *)
C14_CommandLineSave ==
    [][(Dispatched /\ last'.req.method = SpecialCommand)
       => IF args = <<>>
          THEN /\ last'.resp = << new_result(last'.req.id, JNull) >>
               /\ fs' = fs
          ELSE IF is_relative(args[1]) /\ last'.env.fault = "cwd"
          THEN /\ Len(last'.resp) = 1
               /\ last'.resp[1].kind = "error"
               /\ fs' = fs
          ELSE LET path == IF args[1] = RelExt THEN CwdRelExt ELSE args[1]
                   reload == Request(last'.req.id, "reload_save", Params(<<JStr(path)>>))
                   r == handle_request(reload, args, last'.env,
                                       [fs |-> fs, queue |-> queue,
                                        events |-> events, sent |-> <<>>])
               IN  /\ last'.resp = Responses(reload, r)
                   /\ Len(last'.resp) = 1
                   /\ fs' = r.st.fs
                   /\ queue' = r.st.queue
                   /\ events' = r.st.events]_vars

C14_Witness ==
    /\ args = <<>>
    /\ last.req.method = SpecialCommand
    /\ last.resp = << new_result(2, JNull) >>
    /\ last.out = "value"

(* C15: each successful save_file to an existing path with an extension     *)
(* overwrites the one ".bak" sibling, whatever it held, with the bytes the  *)
(* destination held just before this save, and touches no file but the      *)
(* destination and that sibling: after several saves the sibling holds the  *)
(* content before the most recent one, and there is no other backup.        *)
C15_SingleGenerationBackup ==
    [][(/\ Dispatched
        /\ last'.req.method = "save_file"
        /\ ~BadParams(last'.req)
        /\ last'.out = "value"
        /\ exists(fs, last'.req.params.items[1].str)
        /\ has_extension(last'.req.params.items[1].str))
       => LET path == last'.req.params.items[1].str
          IN  /\ fs'[Target(backup_path(path))] = File(fs[Target(path)].bytes)
              /\ \A p \in Files \ {Target(path), Target(backup_path(path))} :
                     fs'[p] = fs[p]]_vars

C15_Witness ==
    /\ last.n = 2
    /\ last.req.method = "save_file"
    /\ last.req.params.items[1].str = AExt
    /\ last.out = "value"
    /\ fs[AExt] = File(<<77, 0>>)
    /\ fs[AExtBak] = File(<<255>>)
    /\ fs[LinkExtBak] = NoFile

(* The signal a call that reached the channel contributes to it *)
Signal(req) ==
    IF req.method = "start_capture" THEN StartCapture(req.params.items[1].str)
    ELSE StopCapture

(* The position of call k of caller c in the order of issue *)
IssueIndex(c, k) ==
    CHOOSE i \in 1..Len(callers.issued) :
        callers.issued[i] = [caller |-> c, k |-> k]

C17_CheckThenSend ==
    [][/\ (/\ Dispatched
           /\ last'.req.method = "start_capture"
           /\ ~BadParams(last'.req)
           /\ last'.env.inspect = "ok"
           /\ foreground = last'.req.params.items[1].str
           /\ foreground' # foreground)
          => /\ last'.sent = <<StartCapture(foreground)>>
             /\ rxAlive => queue' = Append(queue, StartCapture(foreground))
             /\ last'.resp = << new_result(last'.req.id, JStr(CaptionStop)) >>
       /\ (~Dispatched /\ foreground' # foreground) => queue' = queue]_vars

C17_Witness ==
    /\ last.req.method = "start_capture"
    /\ last.env.topapp = Game
    /\ last.env.atsend = Other
    /\ foreground = Other
    /\ queue = <<StartCapture(Game)>>

(* C18: the special name and the names of the notify, call and call-with-   *)
(* param lists are pairwise distinct, and what a dispatch does is fixed by  *)
(* the list its method is in: a notify command runs and answers nothing; a  *)
(* call command runs whatever the params and answers; a call-with-param     *)
(* command runs if and only if the params fit it and answers either way;    *)
(* the special name runs reload_save if SAVE was given; any other name runs *)
(* nothing.  No dispatch runs a command other than the one it names.        *)
C18_DispatchUnambiguous ==
    /\ Cardinality(Registered)
         = 1 + Cardinality(NotifyCommands) + Cardinality(CallCommands)
             + Cardinality(CallCommandsWithParam)
    /\ last.n > 0
         => LET m == last.req.method
            IN  /\ m \in NotifyCommands => (last.invoked = m /\ last.out = "none")
                /\ m \in CallCommands => (last.invoked = m /\ last.out # "none")
                /\ m \in CallCommandsWithParam
                     => /\ last.out # "none"
                        /\ last.invoked = IF BadParams(last.req) THEN "none" ELSE m
                /\ m = SpecialCommand
                     => /\ last.out # "none"
                        /\ last.invoked = IF args = <<>> THEN "none" ELSE "reload_save"
                /\ m \notin Registered => (last.invoked = "none" /\ last.out = "error")

C18_Witness ==
    /\ last.req.method = "stop_capture"
    /\ last.req.params.present
    /\ last.invoked = "stop_capture"
    /\ last.out = "value"
    /\ queue = <<StopCapture>>

(* C19: a save_file that fails before its final write, because the backup   *)
(* copy fails or because decoding the payload gives no bytes, leaves the    *)
(* destination's content as it was and is answered by one error response    *)
(* with the request's id; when it is the decoding that fails and the        *)
(* destination exists and has an extension, the ".bak" sibling holds the    *)
(* destination's unchanged content.                                         *)
C19_FailedSaveKeepsDestination ==
    [][(/\ Dispatched
        /\ last'.req.method = "save_file"
        /\ ~BadParams(last'.req))
       => LET v == last'.req.params.items[1]
              path == v.str
              backup == exists(fs, path) /\ has_extension(path)
              copyFails == backup /\ last'.env.fault = "copy"
              decodeFails == ~copyFails /\ decode(Base64File(v.size, v.b64)).kind # "ok"
          IN  /\ (copyFails \/ decodeFails)
                    => /\ fs'[Target(path)] = fs[Target(path)]
                       /\ Len(last'.resp) = 1
                       /\ last'.resp[1].kind = "error"
                       /\ last'.resp[1].id = last'.req.id
              /\ (decodeFails /\ backup)
                    => fs'[Target(backup_path(path))] = File(fs'[Target(path)].bytes)]_vars

(* C20: when util::current_app() fails during start_capture, the dispatch   *)
(* is answered by one error response with the request's id and no caption,  *)
(* hands nothing to the channel's sender and leaves the queue as it was,    *)
(* whatever the name asked for and the foreground application.              *)
C20_InspectorFailure ==
    [][(/\ Dispatched
        /\ last'.req.method = "start_capture"
        /\ ~BadParams(last'.req)
        /\ last'.env.inspect = "fail")
       => /\ last'.resp = << new_error(last'.req.id, <<"current_app failed">>) >>
          /\ last'.resp[1].result = JNull
          /\ last'.sent = <<>>
          /\ queue' = queue
          /\ received' = received]_vars

C20_Witness ==
    /\ last.req = Request(2, "start_capture", Params(<<JArgs(Game)>>))
    /\ last.env.inspect = "fail"
    /\ last.env.topapp = Game
    /\ last.resp = << new_error(2, <<"current_app failed">>) >>
    /\ last.sent = <<>>
    /\ queue = <<>>

====
